---- MODULE Spec2Model ----
(***************************************************************************)
(* A model of tracing/zipkin/span.go: the Span record, endpoint            *)
(* resolution, the annotation encoder, the child span factory with its     *)
(* collect-once closure, and Encode.                                       *)
(*                                                                         *)
(* Representation.                                                         *)
(*  - Pointers to Span and to zipkincore.Endpoint are indices into the    *)
(*    heaps `spans` and `endpoints`; 0 is nil.                             *)
(*  - A Go string that the code parses (hostport, port) is a sequence of   *)
(*    one-character strings; strings that are only carried along are TLA+  *)
(*    strings.                                                             *)
(*  - An integer value N is the record [hi, lo] with N = hi * 2^16 + lo    *)
(*    and lo in 0..65535, so that 32-bit unsigned values and their         *)
(*    conversions stay inside the checker's integer range.                 *)
(***************************************************************************)
EXTENDS Integers, Sequences, FiniteSets, TLC

VARIABLES
    spans,      \* heap of Span structs, a sequence; a pointer is an index
    endpoints,  \* heap of zipkincore.Endpoint structs
    clock,      \* time.Now(), in nanoseconds
    closures,   \* the CollectFunc closures returned by NewChildSpan
    collected,  \* the calls Collector.Collect has received, in order
    encoded,    \* the results Encode has returned, in order
    callerAnn,  \* history: per span, the values the caller passed to Annotate
    pc,         \* concurrent callers of a CollectFunc: position in the closure
    loc,        \* concurrent callers: the locals of each caller
    probe,      \* the hostport under resolution (endpoint resolver runs)
    nops        \* history: the number of calls made on the spans of the tree

vars == <<spans, endpoints, clock, closures, collected, encoded, callerAnn,
          pc, loc, probe, nops>>

----------------------------------------------------------------------------
(* Bounds of the model *)

MaxSpans == 3       \* spans of a trace tree
MaxOps == 1         \* calls made on the spans of a trace tree
MaxClosures == 1    \* calls of NewChildSpan whose CollectFunc is followed
MaxCalls == 3       \* calls of CollectFuncs
MaxCallerAnn == 2   \* Annotate calls of the caller
MaxBinary == 1      \* AnnotateBinary calls of the caller
MaxTicks == 1       \* times the clock advances
NumThreads == 2     \* concurrent callers of a CollectFunc

----------------------------------------------------------------------------
(* Constants of the package *)

ClientSend == "cs"
ClientReceive == "cr"
ServerAddress == "sa"

NilPtr == 0

Digits == <<"0", "1", "2", "3", "4", "5", "6", "7", "8", "9">>

IsDigit(c) == \E i \in 1..10 : Digits[i] = c

DigitVal(c) == (CHOOSE i \in 1..10 : Digits[i] = c) - 1

----------------------------------------------------------------------------
(* Endpoint resolution *)

IndexByte(s, c) ==
    IF \E i \in 1..Len(s) : s[i] = c
    THEN CHOOSE i \in 1..Len(s) : s[i] = c /\ \A j \in 1..(i - 1) : s[j] # c
    ELSE 0

LastIndexByte(s, c) ==
    IF \E i \in 1..Len(s) : s[i] = c
    THEN CHOOSE i \in 1..Len(s) : s[i] = c /\ \A j \in (i + 1)..Len(s) : s[j] # c
    ELSE 0

SplitErr == [err |-> TRUE, host |-> <<>>, port |-> <<>>]

\* net.SplitHostPort: indices here are 1-based, 0 is "not found".
SplitHostPort(hostport) ==
    LET i == LastIndexByte(hostport, ":")
        n == Len(hostport)
    IN  IF i = 0 THEN SplitErr
        ELSE IF hostport[1] = "["
        THEN LET end == IndexByte(hostport, "]")
             IN  IF end = 0 THEN SplitErr
                 ELSE IF end = n THEN SplitErr
                 ELSE IF end + 1 # i THEN SplitErr
                 ELSE IF IndexByte(SubSeq(hostport, 2, n), "[") # 0 THEN SplitErr
                 ELSE IF IndexByte(SubSeq(hostport, end + 1, n), "]") # 0 THEN SplitErr
                 ELSE [err |-> FALSE,
                       host |-> SubSeq(hostport, 2, end - 1),
                       port |-> SubSeq(hostport, i + 1, n)]
        ELSE LET host == SubSeq(hostport, 1, i - 1)
             IN  IF IndexByte(host, ":") # 0 THEN SplitErr
                 ELSE IF IndexByte(hostport, "[") # 0 THEN SplitErr
                 ELSE IF IndexByte(hostport, "]") # 0 THEN SplitErr
                 ELSE [err |-> FALSE,
                       host |-> host,
                       port |-> SubSeq(hostport, i + 1, n)]

\* The decimal value of a sequence of digits, most significant first.
RECURSIVE DecimalValue(_)
DecimalValue(ds) ==
    IF ds = <<>> THEN 0
    ELSE 10 * DecimalValue(SubSeq(ds, 1, Len(ds) - 1)) + DigitVal(ds[Len(ds)])

Pow2(n) == 2 ^ n

\* strconv.ParseInt(s, 10, bitSize): an optional sign, then one or more
\* decimal digits; a value outside the signed bitSize-bit range is an error.
ParseInt(s, bitSize) ==
    LET signed == s # <<>> /\ s[1] \in {"+", "-"}
        neg    == s # <<>> /\ s[1] = "-"
        ds     == IF signed THEN Tail(s) ELSE s
        cutoff == Pow2(bitSize - 1)
    IN  IF s = <<>> THEN [err |-> TRUE, val |-> 0]
        ELSE IF ds = <<>> THEN [err |-> TRUE, val |-> 0]
        ELSE IF \E i \in 1..Len(ds) : ~IsDigit(ds[i]) THEN [err |-> TRUE, val |-> 0]
        ELSE LET un == DecimalValue(ds)
             IN  IF ~neg /\ un >= cutoff THEN [err |-> TRUE, val |-> cutoff - 1]
                 ELSE IF neg /\ un > cutoff THEN [err |-> TRUE, val |-> 0 - cutoff]
                 ELSE [err |-> FALSE, val |-> IF neg THEN 0 - un ELSE un]

\* The addresses the resolver knows, by host name.
\*   "a": one IPv4 address, 127.0.0.1
\*   "b": an IPv6 address, then two IPv4 addresses (192.168.0.1 first)
\*   "c": an IPv6 address only
\*   "d": an IPv4-mapped IPv6 address, ::ffff:10.0.0.1
\* Every other name fails to resolve.
IPv6Loopback == <<0, 0, 0, 0, 0, 0, 0, 0, 0, 0, 0, 0, 0, 0, 0, 1>>
IPv4Mapped == <<0, 0, 0, 0, 0, 0, 0, 0, 0, 0, 255, 255, 10, 0, 0, 1>>

LookupIP(host) ==
    IF host = <<"a">> THEN [err |-> FALSE, addrs |-> << <<127, 0, 0, 1>> >>]
    ELSE IF host = <<"b">>
    THEN [err |-> FALSE,
          addrs |-> << IPv6Loopback, <<192, 168, 0, 1>>, <<10, 0, 0, 2>> >>]
    ELSE IF host = <<"c">> THEN [err |-> FALSE, addrs |-> << IPv6Loopback >>]
    ELSE IF host = <<"d">> THEN [err |-> FALSE, addrs |-> << IPv4Mapped >>]
    ELSE [err |-> TRUE, addrs |-> <<>>]

\* net.IP.To4: the 4-byte form of an IPv4 address, <<>> (nil) otherwise.
To4(ip) ==
    IF Len(ip) = 4 THEN ip
    ELSE IF /\ Len(ip) = 16
            /\ \A i \in 1..10 : ip[i] = 0
            /\ ip[11] = 255
            /\ ip[12] = 255
    THEN SubSeq(ip, 13, 16)
    ELSE <<>>

\* int32(binary.BigEndian.Uint32(addr))
Int32OfBigEndian(b) ==
    (IF b[1] >= 128 THEN b[1] - 256 ELSE b[1]) * 16777216
        + b[2] * 65536 + b[3] * 256 + b[4]

\* The loop of makeEndpoint over addrs: the value of addr when it ends.
FirstIPv4(addrs) ==
    IF \E i \in 1..Len(addrs) : To4(addrs[i]) # <<>>
    THEN To4(addrs[CHOOSE i \in 1..Len(addrs) :
                     /\ To4(addrs[i]) # <<>>
                     /\ \A j \in 1..(i - 1) : To4(addrs[j]) = <<>>])
    ELSE <<>>

NoEndpoint == [nil |-> TRUE, Ipv4 |-> 0, Port |-> 0, ServiceName |-> ""]

\* strconv.ParseUint(s, 10, bitSize): decimal digits only, below 2^bitSize.
ParseUint(s, bitSize) ==
    IF s = <<>> THEN [err |-> TRUE, val |-> 0]
    ELSE IF \E i \in 1..Len(s) : ~IsDigit(s[i]) THEN [err |-> TRUE, val |-> 0]
    ELSE IF DecimalValue(s) >= Pow2(bitSize) THEN [err |-> TRUE, val |-> Pow2(bitSize) - 1]
    ELSE [err |-> FALSE, val |-> DecimalValue(s)]

\* makeEndpoint parsing the port as an unsigned 16-bit integer; int16(portInt)
\* then wraps around.
makeEndpoint_Uint16(hostport, serviceName) ==
    LET sp == SplitHostPort(hostport)
    IN  IF sp.err THEN NoEndpoint
        ELSE LET portInt == ParseUint(sp.port, 16)
             IN  IF portInt.err THEN NoEndpoint
                 ELSE LET lk == LookupIP(sp.host)
                      IN  IF lk.err THEN NoEndpoint
                          ELSE LET addr == FirstIPv4(lk.addrs)
                               IN  IF addr = <<>> THEN NoEndpoint
                                   ELSE [nil |-> FALSE,
                                         Ipv4 |-> Int32OfBigEndian(addr),
                                         Port |-> IF portInt.val >= 32768
                                                  THEN portInt.val - 65536
                                                  ELSE portInt.val,
                                         ServiceName |-> serviceName]

\* makeEndpoint: the Endpoint value it builds, or NoEndpoint for nil.
makeEndpoint(hostport, serviceName) ==
    LET sp == SplitHostPort(hostport)
    IN  IF sp.err THEN NoEndpoint
        ELSE LET portInt == ParseInt(sp.port, 16)
             IN  IF portInt.err THEN NoEndpoint
                 ELSE LET lk == LookupIP(sp.host)
                      IN  IF lk.err THEN NoEndpoint
                          ELSE LET addr == FirstIPv4(lk.addrs)
                               IN  IF addr = <<>> THEN NoEndpoint
                                   ELSE [nil |-> FALSE,
                                         Ipv4 |-> Int32OfBigEndian(addr),
                                         Port |-> portInt.val,
                                         ServiceName |-> serviceName]

----------------------------------------------------------------------------
(* Values and their byte encodings.  A value is a record with its kind and *)
(* the field of that kind: bool for a bool, bytes for a []byte or a string *)
(* (its bytes), v for an integer, f for a float, text for anything else    *)
(* (the bytes fmt.Sprintf("%+v") renders).                                 *)

\* The integer n as a wide integer [hi, lo], n = hi * 65536 + lo.
Wide(n) == [hi |-> n \div 65536, lo |-> n % 65536]

\* The conversion uint32(v): v modulo 2^32, as its two 16-bit halves.
Uint32(v) == [hi |-> v.hi % 65536, lo |-> v.lo]

\* The conversion uint64(v): v modulo 2^64, as four 16-bit words, most
\* significant first.
Uint64(v) ==
    << ((v.hi \div 65536) \div 65536) % 65536,
       (v.hi \div 65536) % 65536,
       v.hi % 65536,
       v.lo >>

\* make([]byte, n)
MakeBytes(n) == [i \in 1..n |-> 0]

\* binary.BigEndian.PutUint32(b, x): writes b[0..3], leaves the rest of b.
PutUint32(b, x) ==
    [i \in 1..Len(b) |->
        CASE i = 1 -> x.hi \div 256
          [] i = 2 -> x.hi % 256
          [] i = 3 -> x.lo \div 256
          [] i = 4 -> x.lo % 256
          [] OTHER -> b[i]]

\* binary.BigEndian.PutUint64(b, x): writes b[0..7].
PutUint64(b, x) ==
    [i \in 1..Len(b) |->
        IF i <= 8
        THEN LET w == x[(i + 1) \div 2]
             IN  IF i % 2 = 1 THEN w \div 256 ELSE w % 256
        ELSE b[i]]

\* A float64 is [sign, exp, man]: 1 sign bit, 11 exponent bits and the 52
\* mantissa bits as <<4 bits, 16 bits, 16 bits, 16 bits>>.
\* math.Float64bits(f), as four 16-bit words.
Float64bits(f) ==
    << f.sign * 32768 + f.exp * 16 + f.man[1], f.man[2], f.man[3], f.man[4] >>

\* A float32 is [sign, exp, man]: 8 exponent bits and the 23 mantissa bits as
\* <<7 bits, 16 bits>>. float64(v) for zero, normal, infinite and NaN values.
Float64Of(v) ==
    [sign |-> v.sign,
     exp  |-> IF v.exp = 0 THEN 0
              ELSE IF v.exp = 255 THEN 2047
              ELSE v.exp - 127 + 1023,
     man  |-> << v.man[1] \div 8,
                 (v.man[1] % 8) * 8192 + v.man[2] \div 8,
                 (v.man[2] % 8) * 8192,
                 0 >>]

\* The type switch with the 16-bit kinds sent to I16, two bytes wide.
EncodeValue_I16(value) ==
    CASE value.kind = "bool" ->
            [a |-> "BOOL", b |-> IF value.bool THEN <<1>> ELSE <<0>>]
      [] value.kind = "bytes" ->
            [a |-> "BYTES", b |-> value.bytes]
      [] value.kind \in {"int16", "uint16"} ->
            [a |-> "I16", b |-> <<value.v.lo \div 256, value.v.lo % 256>>]
      [] value.kind \in {"byte", "int8", "int32", "uint32"} ->
            [a |-> "I32", b |-> PutUint32(MakeBytes(4), Uint32(value.v))]
      [] value.kind = "int64" ->
            [a |-> "I64", b |-> PutUint64(MakeBytes(8), Uint64(value.v))]
      [] value.kind \in {"int", "uint"} ->
            [a |-> "I32", b |-> PutUint32(MakeBytes(8), Uint32(value.v))]
      [] value.kind = "uint64" ->
            [a |-> "I64", b |-> PutUint64(MakeBytes(8), Uint64(value.v))]
      [] value.kind = "float32" ->
            [a |-> "DOUBLE",
             b |-> PutUint64(MakeBytes(8), Float64bits(Float64Of(value.f)))]
      [] value.kind = "float64" ->
            [a |-> "DOUBLE", b |-> PutUint64(MakeBytes(8), Float64bits(value.f))]
      [] value.kind = "string" ->
            [a |-> "STRING", b |-> value.bytes]
      [] OTHER ->
            [a |-> "STRING", b |-> value.text]

\* The type switch of AnnotateBinary: the annotation type a and the bytes b.
EncodeValue(value) ==
    CASE value.kind = "bool" ->
            [a |-> "BOOL", b |-> IF value.bool THEN <<1>> ELSE <<0>>]
      [] value.kind = "bytes" ->
            [a |-> "BYTES", b |-> value.bytes]
      [] value.kind \in {"byte", "int8", "int16", "uint16", "int32", "uint32"} ->
            [a |-> "I32", b |-> PutUint32(MakeBytes(4), Uint32(value.v))]
      [] value.kind = "int64" ->
            [a |-> "I64", b |-> PutUint64(MakeBytes(8), Uint64(value.v))]
      [] value.kind \in {"int", "uint"} ->
            [a |-> "I32", b |-> PutUint32(MakeBytes(8), Uint32(value.v))]
      [] value.kind = "uint64" ->
            [a |-> "I64", b |-> PutUint64(MakeBytes(8), Uint64(value.v))]
      [] value.kind = "float32" ->
            [a |-> "DOUBLE",
             b |-> PutUint64(MakeBytes(8), Float64bits(Float64Of(value.f)))]
      [] value.kind = "float64" ->
            [a |-> "DOUBLE", b |-> PutUint64(MakeBytes(8), Float64bits(value.f))]
      [] value.kind = "string" ->
            [a |-> "STRING", b |-> value.bytes]
      [] OTHER ->
            [a |-> "STRING", b |-> value.text]

----------------------------------------------------------------------------
(* The heap and the methods of Span.  A world is the record                *)
(* [spans, endpoints, clock]; every method maps a world to a world.        *)

World == [spans |-> spans, endpoints |-> endpoints, clock |-> clock]

\* makeEndpoint as an allocation: the world with the new Endpoint on the
\* heap and the pointer to it, or the same world and nil.
Resolve(w, hostport, serviceName) ==
    LET e == makeEndpoint(hostport, serviceName)
    IN  IF e.nil THEN [w |-> w, ptr |-> NilPtr]
        ELSE [w   |-> [w EXCEPT !.endpoints = Append(@, e)],
              ptr |-> Len(w.endpoints) + 1]

NewSpanStruct(host, methodName, traceID, spanID, parentSpanID, debug, sampled, runSampler) ==
    [host |-> host, methodName |-> methodName,
     traceID |-> traceID, spanID |-> spanID, parentSpanID |-> parentSpanID,
     annotations |-> <<>>, binaryAnnotations |-> <<>>,
     debug |-> debug, sampled |-> sampled, runSampler |-> runSampler]

\* NewSpan: the world with the new Span as the last one of the heap.
NewSpan(w, hostport, serviceName, methodName, traceID, spanID, parentSpanID) ==
    LET r == Resolve(w, hostport, serviceName)
    IN  [r.w EXCEPT !.spans = Append(@,
            NewSpanStruct(r.ptr, methodName, traceID, spanID, parentSpanID,
                          FALSE, FALSE, TRUE))]

Sample(w, s) == [w EXCEPT !.spans[s].sampled = TRUE]

SetDebug(w, s) == [w EXCEPT !.spans[s].debug = TRUE]

\* Annotate, putting the annotation first instead of last.
Annotate_Prepend(w, s, value) ==
    [w EXCEPT !.spans[s].annotations =
                  <<[timestamp |-> w.clock,
                     value     |-> value,
                     host      |-> w.spans[s].host]>> \o @]

Annotate(w, s, value) ==
    [w EXCEPT !.spans[s].annotations =
                  Append(@, [timestamp |-> w.clock,
                             value     |-> value,
                             host      |-> w.spans[s].host])]

AnnotateBinary(w, s, key, value) ==
    LET enc == EncodeValue(value)
    IN  [w EXCEPT !.spans[s].binaryAnnotations =
                      Append(@, [key            |-> key,
                                 value          |-> enc.b,
                                 annotationType |-> enc.a,
                                 host           |-> w.spans[s].host])]

AnnotateString(w, s, key, value) ==
    [w EXCEPT !.spans[s].binaryAnnotations =
                  Append(@, [key            |-> key,
                             value          |-> value,
                             annotationType |-> "STRING",
                             host           |-> w.spans[s].host])]

\* ServerAddr without the reset of s.host.
ServerAddr_NoReset(w, s, hostport, serviceName) ==
    LET r == Resolve(w, hostport, serviceName)
    IN  IF r.ptr # NilPtr
        THEN LET w1 == [r.w EXCEPT !.spans[s].host = r.ptr]
             IN  AnnotateBinary(w1, s, ServerAddress, [kind |-> "bool", bool |-> TRUE])
        ELSE w

\* The option ServerAddr(hostport, serviceName) applied to span s.
ServerAddr(w, s, hostport, serviceName) ==
    LET r == Resolve(w, hostport, serviceName)
    IN  IF r.ptr # NilPtr
        THEN LET host == r.w.spans[s].host
                 w1   == [r.w EXCEPT !.spans[s].host = r.ptr]
                 w2   == AnnotateBinary(w1, s, ServerAddress, [kind |-> "bool", bool |-> TRUE])
             IN  [w2 EXCEPT !.spans[s].host = host]
        ELSE w

\* Host without the test of e against nil.
Host_Unchecked(w, s, hostport, serviceName) ==
    LET r == Resolve(w, hostport, serviceName)
    IN  [r.w EXCEPT !.spans[s].host = r.ptr]

\* The option Host(hostport, serviceName) applied to span s.
Host(w, s, hostport, serviceName) ==
    LET r == Resolve(w, hostport, serviceName)
    IN  IF r.ptr # NilPtr
        THEN [r.w EXCEPT !.spans[s].host = r.ptr]
        ELSE w

\* The option Debug(debug) applied to span s.
Debug(w, s, debug) == [w EXCEPT !.spans[s].debug = debug]

\* An option is a record naming the constructor and its arguments.
ApplyOption(w, s, o) ==
    CASE o.opt = "ServerAddr" -> ServerAddr(w, s, o.hostport, o.serviceName)
      [] o.opt = "Host"       -> Host(w, s, o.hostport, o.serviceName)
      [] o.opt = "Debug"      -> Debug(w, s, o.debug)

\* for _, option := range options { option(childSpan) }
RECURSIVE ApplyOptions(_, _, _)
ApplyOptions(w, s, options) ==
    IF options = <<>> THEN w
    ELSE ApplyOptions(ApplyOption(w, s, Head(options)), s, Tail(options))

\* NewChildSpan, taking parentSpanID from the parent's parentSpanID.
NewChildSpan_ParentOfParent(w, parent, methodName, id, options) ==
    LET span  == w.spans[parent]
        child == Len(w.spans) + 1
        w1 == [w EXCEPT !.spans = Append(@,
                  NewSpanStruct(span.host, methodName, span.traceID, id,
                                span.parentSpanID, span.debug, span.sampled,
                                span.runSampler))]
        w2 == Annotate(w1, child, ClientSend)
    IN  ApplyOptions(w2, child, options)

\* NewChildSpan when the context holds span `parent`: the world with the
\* child as the last Span of the heap, annotated and with the options applied.
NewChildSpan(w, parent, methodName, id, options) ==
    LET span  == w.spans[parent]
        child == Len(w.spans) + 1
        w1 == [w EXCEPT !.spans = Append(@,
                  NewSpanStruct(span.host, methodName, span.traceID, id,
                                span.spanID, span.debug, span.sampled,
                                span.runSampler))]
        w2 == Annotate(w1, child, ClientSend)
    IN  ApplyOptions(w2, child, options)

\* A slice of the Thrift struct: nil, or made with its elements.
NilSlice == [nil |-> TRUE, elems |-> <<>>]

MakeSlice(elems) == [nil |-> FALSE, elems |-> elems]

\* Encode setting ParentId whatever parentSpanID is.
EncodeStruct_ParentAlways(w, s) ==
    LET sp == w.spans[s]
    IN  [TraceId  |-> sp.traceID,
         Name     |-> sp.methodName,
         Id       |-> sp.spanID,
         Debug    |-> sp.debug,
         ParentId |-> <<sp.parentSpanID>>,
         Annotations |-> MakeSlice(
             [i \in 1..Len(sp.annotations) |->
                 [Timestamp |-> sp.annotations[i].timestamp \div 1000,
                  Value     |-> sp.annotations[i].value,
                  Host      |-> sp.annotations[i].host]]),
         BinaryAnnotations |-> MakeSlice(
             [i \in 1..Len(sp.binaryAnnotations) |->
                 [Key            |-> sp.binaryAnnotations[i].key,
                  Value          |-> sp.binaryAnnotations[i].value,
                  AnnotationType |-> sp.binaryAnnotations[i].annotationType,
                  Host           |-> sp.binaryAnnotations[i].host]])]

\* Span.Encode: the Thrift struct it returns.  ParentId is <<>> for a nil
\* pointer, <<id>> otherwise.
EncodeStruct(w, s) ==
    LET sp == w.spans[s]
    IN  [TraceId  |-> sp.traceID,
         Name     |-> sp.methodName,
         Id       |-> sp.spanID,
         Debug    |-> sp.debug,
         ParentId |-> IF sp.parentSpanID # 0 THEN <<sp.parentSpanID>> ELSE <<>>,
         Annotations |-> MakeSlice(
             [i \in 1..Len(sp.annotations) |->
                 [Timestamp |-> sp.annotations[i].timestamp \div 1000,
                  Value     |-> sp.annotations[i].value,
                  Host      |-> sp.annotations[i].host]]),
         BinaryAnnotations |-> MakeSlice(
             [i \in 1..Len(sp.binaryAnnotations) |->
                 [Key            |-> sp.binaryAnnotations[i].key,
                  Value          |-> sp.binaryAnnotations[i].value,
                  AnnotationType |-> sp.binaryAnnotations[i].annotationType,
                  Host           |-> sp.binaryAnnotations[i].host]])]

\* Span.Encode as a method on the heap: the world it leaves and its result.
Encode(w, s) == [w |-> w, zs |-> EncodeStruct(w, s)]

----------------------------------------------------------------------------
(* Operations, as actions on the state.  Each leaves `nops`, the count of  *)
(* calls, to the specification that uses it.                               *)

SetWorld(w) ==
    /\ spans' = w.spans
    /\ endpoints' = w.endpoints
    /\ clock' = w.clock

UsedIDs == {spans[i].spanID : i \in 1..Len(spans)}

\* newID(): an identifier no span of the process carries.
newID(ids) == ids \ UsedIDs

NoEncoded == [span |-> NilPtr]

DoNewSpan(hostport, serviceName, methodName, traceID, spanID, parentSpanID) ==
    LET w == NewSpan(World, hostport, serviceName, methodName, traceID, spanID, parentSpanID)
    IN  /\ SetWorld(w)
        /\ callerAnn' = Append(callerAnn, <<>>)
        /\ UNCHANGED <<closures, collected, encoded, pc, loc, probe>>

\* NewChildSpan(ctx, collector, methodName, options...): ctx = 0 is a context
\* without a span, ctx = i a context holding the span at i.  The closure
\* returned holds the variable childSpan; the fields ctx, span, options and
\* calls are history: the span found in the context, the span returned, the
\* options passed, and how many times the closure has been called.
DoNewChildSpan(ctx, methodName, id, options) ==
    IF ctx = NilPtr
    THEN /\ closures' = Append(closures,
                [childSpan |-> NilPtr, ctx |-> NilPtr, span |-> NilPtr,
                 options |-> options, calls |-> 0])
         /\ UNCHANGED <<spans, endpoints, clock, collected, encoded, callerAnn,
                        pc, loc, probe>>
    ELSE LET w == NewChildSpan(World, ctx, methodName, id, options)
         IN  /\ SetWorld(w)
             /\ closures' = Append(closures,
                    [childSpan |-> Len(w.spans), ctx |-> ctx,
                     span |-> Len(w.spans), options |-> options, calls |-> 0])
             /\ callerAnn' = Append(callerAnn, <<>>)
             /\ UNCHANGED <<collected, encoded, pc, loc, probe>>

\* The CollectFunc without its last statement, childSpan = nil.
DoCollectFunc_NoClear(c) ==
    LET childSpan == closures[c].childSpan
    IN  IF childSpan # NilPtr
        THEN LET w == Annotate(World, childSpan, ClientReceive)
             IN  /\ SetWorld(w)
                 /\ collected' = Append(collected,
                        [span        |-> childSpan,
                         by          |-> c,
                         annotations |-> w.spans[childSpan].annotations,
                         caller      |-> callerAnn[childSpan]])
                 /\ closures' = [closures EXCEPT ![c].calls = @ + 1]
                 /\ UNCHANGED <<encoded, callerAnn, pc, loc, probe>>
        ELSE /\ closures' = [closures EXCEPT ![c].calls = @ + 1]
             /\ UNCHANGED <<spans, endpoints, clock, collected, encoded,
                            callerAnn, pc, loc, probe>>

\* One call of the CollectFunc closures[c], run to its end.
DoCollectFunc(c) ==
    LET childSpan == closures[c].childSpan
    IN  IF childSpan # NilPtr
        THEN LET w == Annotate(World, childSpan, ClientReceive)
             IN  /\ SetWorld(w)
                 /\ collected' = Append(collected,
                        [span        |-> childSpan,
                         by          |-> c,
                         annotations |-> w.spans[childSpan].annotations,
                         caller      |-> callerAnn[childSpan]])
                 /\ closures' = [closures EXCEPT ![c].childSpan = NilPtr,
                                                 ![c].calls = @ + 1]
                 /\ UNCHANGED <<encoded, callerAnn, pc, loc, probe>>
        ELSE /\ closures' = [closures EXCEPT ![c].calls = @ + 1]
             /\ UNCHANGED <<spans, endpoints, clock, collected, encoded,
                            callerAnn, pc, loc, probe>>

DoAnnotate(s, value) ==
    /\ SetWorld(Annotate(World, s, value))
    /\ callerAnn' = [callerAnn EXCEPT ![s] = Append(@, value)]
    /\ UNCHANGED <<closures, collected, encoded, pc, loc, probe>>

DoAnnotateBinary(s, key, value) ==
    /\ SetWorld(AnnotateBinary(World, s, key, value))
    /\ UNCHANGED <<closures, collected, encoded, callerAnn, pc, loc, probe>>

DoAnnotateString(s, key, value) ==
    /\ SetWorld(AnnotateString(World, s, key, value))
    /\ UNCHANGED <<closures, collected, encoded, callerAnn, pc, loc, probe>>

DoSample(s) ==
    /\ SetWorld(Sample(World, s))
    /\ UNCHANGED <<closures, collected, encoded, callerAnn, pc, loc, probe>>

DoSetDebug(s) ==
    /\ SetWorld(SetDebug(World, s))
    /\ UNCHANGED <<closures, collected, encoded, callerAnn, pc, loc, probe>>

\* A call of Encode on span s; `encoded` keeps its result zs and, as history,
\* the heap before and after the call.
DoEncode(s) ==
    LET r == Encode(World, s)
    IN  /\ SetWorld(r.w)
        /\ encoded' = [span |-> s, zs |-> r.zs, before |-> World, after |-> r.w]
        /\ UNCHANGED <<closures, collected, callerAnn, pc, loc, probe>>

\* Time passes: what time.Now() returns grows.
Tick(nanos) ==
    /\ clock' = clock + nanos
    /\ UNCHANGED <<spans, endpoints, closures, collected, encoded, callerAnn,
                   pc, loc, probe>>

----------------------------------------------------------------------------
(* Inputs *)

HostportA == <<"a", ":", "8", "0">>
HostportB == <<"b", ":", "8", "1">>
HostportD == <<"d", ":", "-", "1">>
HostportNoPort == <<"a">>
HostportNoHost == <<"z", ":", "8", "0">>

OptDebug == [opt |-> "Debug", debug |-> TRUE]
OptHostB == [opt |-> "Host", hostport |-> HostportB, serviceName |-> "db"]
OptServerAddrB == [opt |-> "ServerAddr", hostport |-> HostportB, serviceName |-> "db"]
OptServerAddrD == [opt |-> "ServerAddr", hostport |-> HostportD, serviceName |-> "cache"]

SpanPtrs == 1..Len(spans)

\* The spans NewChildSpan returned.
ChildPtrs == {closures[c].span : c \in 1..Len(closures)} \ {NilPtr}

\* The number of elements of the sequences of the sequence ss.
RECURSIVE TotalLen(_)
TotalLen(ss) == IF ss = <<>> THEN 0 ELSE Len(Head(ss)) + TotalLen(Tail(ss))

\* The number of calls of CollectFuncs so far.
RECURSIVE SumCalls(_)
SumCalls(cs) == IF cs = <<>> THEN 0 ELSE Head(cs).calls + SumCalls(Tail(cs))

TotalCalls == SumCalls(closures)

\* The identifiers the generator may return next.
NextIDs == newID(1..(Len(spans) + 2))

Init ==
    /\ spans = <<>>
    /\ endpoints = <<>>
    /\ clock = 0
    /\ closures = <<>>
    /\ collected = <<>>
    /\ encoded = NoEncoded
    /\ callerAnn = <<>>
    /\ pc = <<>>
    /\ loc = <<>>
    /\ probe = <<>>
    /\ nops = 0

----------------------------------------------------------------------------
(* Spec: a root span, NewChildSpan called on a context with or without a   *)
(* span, the caller annotating the child, and the CollectFunc called any   *)
(* number of times, one call at a time.                                    *)

LifeOptions ==
    { <<>>, <<OptHostB>>, <<OptServerAddrB, OptDebug>> }

LifeNewSpan ==
    /\ spans = <<>>
    /\ DoNewSpan(HostportA, "svc", "rpc", 1, 2, 0)
    /\ UNCHANGED nops

LifeNewChildSpan ==
    /\ spans # <<>>
    /\ Len(closures) < MaxClosures
    /\ \E ctx \in {NilPtr} \cup SpanPtrs, id \in NextIDs, options \in LifeOptions :
          DoNewChildSpan(ctx, "db", id, options)
    /\ UNCHANGED nops

LifeCollectFunc ==
    \E c \in 1..Len(closures) :
        /\ TotalCalls < MaxCalls
        /\ DoCollectFunc(c)
        /\ UNCHANGED nops

LifeAnnotate ==
    \E s \in ChildPtrs, value \in {"x", "y"} :
        /\ TotalLen(callerAnn) < MaxCallerAnn
        /\ DoAnnotate(s, value)
        /\ UNCHANGED nops

Next ==
    \/ LifeNewSpan
    \/ LifeNewChildSpan
    \/ LifeCollectFunc
    \/ LifeAnnotate

Spec == Init /\ [][Next]_vars

----------------------------------------------------------------------------
(* Claims checked under Spec *)

\* The number of indices of sequence q whose element satisfies Test.
Count(q, Test(_)) == Cardinality({i \in 1..Len(q) : Test(q[i])})

CollectsBy(c) == LET By(e) == e.by = c IN Count(collected, By)

ReceivesOf(s) ==
    IF s = NilPtr THEN 0
    ELSE LET IsCR(a) == a.value = ClientReceive
         IN  Count(spans[s].annotations, IsCR)

\* C1: for each call of NewChildSpan and the n calls made so far of the
\* CollectFunc it returned, Collect has been called exactly once if a span
\* was found in the context and n >= 1, and never otherwise (in which case,
\* n = 0 aside, the span returned is nil); the client-receive annotation has
\* been appended exactly as often as Collect was called.
C1_CollectExactlyOnce ==
    \A c \in 1..Len(closures) :
        /\ (closures[c].span = NilPtr) <=> (closures[c].ctx = NilPtr)
        /\ CollectsBy(c) =
              IF closures[c].ctx # NilPtr /\ closures[c].calls >= 1 THEN 1 ELSE 0
        /\ ReceivesOf(closures[c].span) = CollectsBy(c)

\* A CollectFunc of a child span that has been called at least twice and has
\* handed its span to Collect once.
C1_Witness ==
    \E c \in 1..Len(closures) :
        /\ closures[c].ctx # NilPtr
        /\ closures[c].calls >= 2
        /\ CollectsBy(c) = 1

Values(annotations) == [k \in 1..Len(annotations) |-> annotations[k].value]

\* C4: the timing annotations of every span handed to Collect are
\* client-send, then the values the caller passed to Annotate before the
\* CollectFunc ran, in the order of the calls, then client-receive.
C4_TimelineOrder ==
    \A i \in 1..Len(collected) :
        Values(collected[i].annotations) =
            <<ClientSend>> \o collected[i].caller \o <<ClientReceive>>

\* A child made with options was annotated with two different values and
\* then collected.
C4_Witness ==
    \E i \in 1..Len(collected) :
        /\ Len(collected[i].caller) = 2
        /\ collected[i].caller[1] # collected[i].caller[2]
        /\ spans[collected[i].span].binaryAnnotations # <<>>

----------------------------------------------------------------------------
(* SpecTree: a trace tree.  A root span, children derived from any span of *)
(* the tree, and every method that writes to a span called on any of them. *)

TreeOptions == { <<>>, <<OptServerAddrB, OptHostB, OptDebug>> }

TreeNewSpan ==
    /\ spans = <<>>
    /\ \E parentSpanID \in {0, 9} :
          DoNewSpan(HostportA, "svc", "rpc", 1, 2, parentSpanID)
    /\ UNCHANGED nops

TreeNewChildSpan ==
    /\ spans # <<>>
    /\ Len(spans) < MaxSpans
    /\ \E ctx \in SpanPtrs, id \in NextIDs, options \in TreeOptions :
          DoNewChildSpan(ctx, "db", id, options)
    /\ UNCHANGED nops

TreeCall(A) ==
    /\ nops < MaxOps
    /\ A
    /\ nops' = nops + 1

TreeCollectFunc == \E c \in 1..Len(closures) : TreeCall(DoCollectFunc(c))

TreeAnnotate == \E s \in SpanPtrs : TreeCall(DoAnnotate(s, "x"))

TreeAnnotateBinary ==
    \E s \in SpanPtrs :
        TreeCall(DoAnnotateBinary(s, "k", [kind |-> "int16", v |-> Wide(-2)]))

TreeAnnotateString ==
    \E s \in SpanPtrs : TreeCall(DoAnnotateString(s, "k", <<104, 105>>))

TreeSample == \E s \in SpanPtrs : TreeCall(DoSample(s))

TreeSetDebug == \E s \in SpanPtrs : TreeCall(DoSetDebug(s))

NextTree ==
    \/ TreeNewSpan
    \/ TreeNewChildSpan
    \/ TreeCollectFunc
    \/ TreeAnnotate
    \/ TreeAnnotateBinary
    \/ TreeAnnotateString
    \/ TreeSample
    \/ TreeSetDebug

SpecTree == Init /\ [][NextTree]_vars

\* The calls of NewChildSpan that returned a span.
Derivations == {c \in 1..Len(closures) : closures[c].span # NilPtr}

TreeIdentity ==
    /\ \A s \in SpanPtrs : spans[s].traceID = spans[1].traceID
    /\ \A c \in Derivations :
          LET child  == spans[closures[c].span]
              parent == spans[closures[c].ctx]
          IN  /\ child.traceID = parent.traceID
              /\ child.parentSpanID = parent.spanID
              /\ child.spanID # parent.spanID
              /\ \A d \in Derivations \ {c} :
                    closures[d].ctx = closures[c].ctx
                        => spans[closures[d].span].spanID # child.spanID

IdentityKept ==
    \A s \in SpanPtrs :
        /\ spans'[s].traceID = spans[s].traceID
        /\ spans'[s].spanID = spans[s].spanID
        /\ spans'[s].parentSpanID = spans[s].parentSpanID

\* C3: in a tree built from a root by NewChildSpan, every span has the
\* traceID of the root, every child has the traceID of its parent, the
\* spanID of its parent as parentSpanID, and a spanID other than its
\* parent's and its siblings'; and no step of the program changes traceID,
\* spanID or parentSpanID of a span that exists.
C3_TreeIdentity == []TreeIdentity /\ [][IdentityKept]_vars

\* Two children of one parent, and a call made on a span of the tree.
C3_Witness ==
    /\ nops >= 1
    /\ \E c, d \in Derivations :
          /\ c # d
          /\ closures[c].ctx = closures[d].ctx
          /\ spans[closures[c].ctx].parentSpanID # 0

----------------------------------------------------------------------------
(* SpecOpt: the options of NewChildSpan and the host of the annotations.   *)
(* A root with or without a host, children made with lists of options,     *)
(* and annotations of either kind appended to any span afterwards.         *)

HostOptions == {OptHostB, OptServerAddrB, OptServerAddrD}

OptionLists ==
    {<<>>} \cup {<<a>> : a \in HostOptions} \cup {<<a, b>> : a, b \in HostOptions}

OptNewSpan ==
    /\ spans = <<>>
    /\ \E hostport \in {HostportA, HostportNoPort} :
          DoNewSpan(hostport, "svc", "rpc", 1, 2, 0)
    /\ UNCHANGED nops

OptNewChildSpan ==
    /\ spans # <<>>
    /\ Len(closures) < MaxClosures
    /\ \E ctx \in SpanPtrs, id \in newID({Len(spans) + 2}), options \in OptionLists :
          DoNewChildSpan(ctx, "db", id, options)
    /\ UNCHANGED nops

OptCall(A) ==
    /\ nops < MaxOps
    /\ A
    /\ nops' = nops + 1

OptAnnotate == \E s \in SpanPtrs : OptCall(DoAnnotate(s, "x"))

OptAnnotateBinary ==
    \E s \in SpanPtrs :
        OptCall(DoAnnotateBinary(s, "k", [kind |-> "bool", bool |-> FALSE]))

OptAnnotateString ==
    \E s \in SpanPtrs : OptCall(DoAnnotateString(s, "k", <<104, 105>>))

OptCollectFunc == \E c \in 1..Len(closures) : OptCall(DoCollectFunc(c))

NextOpt ==
    \/ OptNewSpan
    \/ OptNewChildSpan
    \/ OptAnnotate
    \/ OptAnnotateBinary
    \/ OptAnnotateString
    \/ OptCollectFunc

SpecOpt == Init /\ [][NextOpt]_vars

\* The Endpoint a host pointer refers to.
EndpointAt(eps, ptr) == IF ptr = NilPtr THEN NoEndpoint ELSE eps[ptr]

Resolves(o) == ~makeEndpoint(o.hostport, o.serviceName).nil

\* The options of a list that name a constructor and resolve.
Resolving(options, opt) ==
    LET Keep(o) == o.opt = opt /\ Resolves(o) IN SelectSeq(options, Keep)

\* What the options of each NewChildSpan call left behind: client-send and
\* whatever is stamped with the host of the span carry the parent's host
\* unless a Host option resolved; each ServerAddr option that resolved left
\* one binary annotation, stamped with its own endpoint, and nothing else.
OptionsStamp ==
    \A c \in Derivations :
        LET child  == spans[closures[c].span]
            parent == spans[closures[c].ctx]
            sa     == Resolving(closures[c].options, "ServerAddr")
            ho     == Resolving(closures[c].options, "Host")
        IN  /\ child.annotations[1].value = ClientSend
            /\ child.annotations[1].host = parent.host
            /\ Len(child.binaryAnnotations) >= Len(sa)
            /\ \A k \in 1..Len(sa) :
                  /\ child.binaryAnnotations[k].key = ServerAddress
                  /\ EndpointAt(endpoints, child.binaryAnnotations[k].host)
                        = makeEndpoint(sa[k].hostport, sa[k].serviceName)
            /\ IF ho = <<>>
               THEN child.host = parent.host
               ELSE endpoints[child.host]
                        = makeEndpoint(ho[Len(ho)].hostport, ho[Len(ho)].serviceName)

\* A step leaves every annotation that exists, and the Endpoint it is
\* stamped with, as it is.
StampKept ==
    /\ \A e \in 1..Len(endpoints) : endpoints'[e] = endpoints[e]
    /\ \A s \in SpanPtrs :
          /\ Len(spans'[s].annotations) >= Len(spans[s].annotations)
          /\ Len(spans'[s].binaryAnnotations) >= Len(spans[s].binaryAnnotations)
          /\ \A k \in 1..Len(spans[s].annotations) :
                spans'[s].annotations[k] = spans[s].annotations[k]
          /\ \A k \in 1..Len(spans[s].binaryAnnotations) :
                spans'[s].binaryAnnotations[k] = spans[s].binaryAnnotations[k]

\* An annotation a step appends to a span that exists is stamped with the
\* host the span has, and the step leaves that host as it is.
StampAtAppend ==
    \A s \in SpanPtrs :
        /\ spans'[s].host = spans[s].host
        /\ \A k \in (Len(spans[s].annotations) + 1)..Len(spans'[s].annotations) :
              spans'[s].annotations[k].host = spans[s].host
        /\ \A k \in (Len(spans[s].binaryAnnotations) + 1)..Len(spans'[s].binaryAnnotations) :
              spans'[s].binaryAnnotations[k].host = spans[s].host

\* The child a step makes has client-send and one binary annotation for
\* each ServerAddr option that resolved, and no other annotation.
StampOfNew ==
    \A c \in (Len(closures) + 1)..Len(closures') :
        closures'[c].span # NilPtr =>
            LET child == spans'[closures'[c].span]
            IN  /\ Len(child.annotations) = 1
                /\ Len(child.binaryAnnotations)
                      = Len(Resolving(closures'[c].options, "ServerAddr"))

\* C5: every annotation carries the Endpoint that was the host of its span
\* when it was appended, and keeps it; a Host option changes the host of
\* later annotations only; a ServerAddr option appends one binary annotation
\* stamped with its own endpoint and leaves the host of the span and of the
\* annotations appended before it (client-send among them) as they were.
C5_HostStamp == []OptionsStamp /\ [][StampKept /\ StampAtAppend /\ StampOfNew]_vars

\* A child of a span with a host, whose options gave it a server address
\* and then a new host, and that was annotated afterwards.
C5_Witness ==
    \E c \in Derivations :
        LET child == spans[closures[c].span]
        IN  /\ closures[c].options = <<OptServerAddrD, OptHostB>>
            /\ Len(child.annotations) >= 2
            /\ child.annotations[1].host # NilPtr
            /\ child.annotations[1].host # child.annotations[2].host
            /\ child.annotations[2].host = child.host
            /\ Len(child.binaryAnnotations) = 1
            /\ child.binaryAnnotations[1].host # child.host
            /\ child.binaryAnnotations[1].host # child.annotations[1].host

----------------------------------------------------------------------------
(* SpecResolve: endpoint resolution.  Two hostports are drawn, one for     *)
(* NewSpan and one for the Host and ServerAddr options of NewChildSpan.    *)
(* Each comes with what is known of it from the way it is written: whether *)
(* it is well formed with a host that has an IPv4 address, and the number  *)
(* its port spells.                                                        *)

\* strconv.Itoa, for writing the hostports.
RECURSIVE FormatNat(_)
FormatNat(n) ==
    IF n < 10 THEN <<Digits[n + 1]>>
    ELSE FormatNat(n \div 10) \o <<Digits[(n % 10) + 1]>>

FormatInt(n) == IF n < 0 THEN <<"-">> \o FormatNat(0 - n) ELSE FormatNat(n)

ProbeHosts == { <<"a">>, <<"b">>, <<"c">>, <<"d">>, <<"z">> }

IPv4Hosts == { <<"a">>, <<"b">>, <<"d">> }

ProbePorts == { -32769, -32768, -1, 0, 80, 32767, 32768, 40000, 65535, 65536 }

\* host:port with the port written in decimal.
DecimalProbes ==
    { [hostport |-> h \o <<":">> \o FormatInt(n), form |-> "decimal",
       host |-> h, port |-> n] : h \in ProbeHosts, n \in ProbePorts }

\* Other spellings of a:80 that are well formed.
SpelledProbes ==
    { [hostport |-> hp, form |-> "spelled", host |-> <<"a">>, port |-> 80] :
        hp \in { <<"a", ":", "+", "8", "0">>,
                 <<"a", ":", "0", "8", "0">>,
                 <<"[", "a", "]", ":", "8", "0">> } }

\* Hostports that are not host:port with a number for the port.
MalformedProbes ==
    { [hostport |-> hp, form |-> "malformed", host |-> <<>>, port |-> 0] :
        hp \in { <<>>,
                 <<"a">>,
                 <<"a", ":">>,
                 <<"a", ":", "x">>,
                 <<"a", ":", "8", "x">>,
                 <<"a", ":", "-">>,
                 <<"a", ":", "8", " ">>,
                 <<"a", ":", "b", ":", "8", "0">>,
                 <<"[", "a", ":", "8", "0">>,
                 <<"a", "]", ":", "8", "0">>,
                 <<"[", "a", "]", "8", "0">>,
                 <<":", "8", "0">> } }

Probes == DecimalProbes \cup SpelledProbes \cup MalformedProbes

Int16 == -32768..32767

\* Whether a hostport is to resolve, from the way it is written.
Good(p) ==
    /\ p.form # "malformed"
    /\ p.host \in IPv4Hosts
    /\ p.port \in Int16

InitResolve ==
    /\ spans = <<>>
    /\ endpoints = <<>>
    /\ clock = 0
    /\ closures = <<>>
    /\ collected = <<>>
    /\ encoded = NoEncoded
    /\ callerAnn = <<>>
    /\ pc = <<>>
    /\ loc = <<>>
    /\ probe \in [root : Probes, opt : Probes]
    /\ nops = 0

ProbeHost == [opt |-> "Host", hostport |-> probe.opt.hostport, serviceName |-> "h"]
ProbeServerAddr == [opt |-> "ServerAddr", hostport |-> probe.opt.hostport, serviceName |-> "s"]

ProbeOptionLists ==
    { <<ProbeHost>>,
      <<ProbeServerAddr>>,
      <<OptServerAddrB, ProbeHost, ProbeServerAddr, OptDebug>>,
      <<OptHostB, ProbeServerAddr, ProbeHost>> }

ResolveNewSpan ==
    /\ spans = <<>>
    /\ DoNewSpan(probe.root.hostport, "svc", "rpc", 1, 2, 0)
    /\ UNCHANGED nops

ResolveNewChildSpan ==
    /\ spans # <<>>
    /\ Len(closures) < MaxClosures
    /\ \E ctx \in SpanPtrs, options \in ProbeOptionLists :
          DoNewChildSpan(ctx, "db", Len(spans) + 2, options)
    /\ UNCHANGED nops

NextResolve ==
    \/ ResolveNewSpan
    \/ ResolveNewChildSpan

SpecResolve == InitResolve /\ [][NextResolve]_vars

\* The options of a list for which Test holds.
Among(options, Test(_)) == SelectSeq(options, Test)

IsRoot(s) == \A c \in Derivations : closures[c].span # s

\* Whether option o takes effect, from the way its hostport is written.
Takes(o) ==
    \/ o \in {OptHostB, OptServerAddrB}
    \/ o \in {ProbeHost, ProbeServerAddr} /\ Good(probe.opt)

\* NewSpan with a hostport that does not resolve returns the span asked
\* for, without a host.
RootWithoutHost ==
    \A s \in SpanPtrs :
        IsRoot(s) =>
            /\ spans[s].traceID = 1
            /\ spans[s].spanID = 2
            /\ spans[s].parentSpanID = 0
            /\ spans[s].methodName = "rpc"
            /\ spans[s].runSampler
            /\ spans[s].annotations = <<>>
            /\ spans[s].binaryAnnotations = <<>>
            /\ ~Good(probe.root) => spans[s].host = NilPtr

\* A child is what the options that take effect make it: the options that
\* fail to resolve leave no trace on its host or its annotations, nor on the
\* heap of endpoints.
FailedOptionsLeaveNoTrace ==
    /\ \A c \in Derivations :
          LET child  == spans[closures[c].span]
              parent == spans[closures[c].ctx]
              IsHost(o) == o.opt = "Host" /\ Takes(o)
              IsAddr(o) == o.opt = "ServerAddr" /\ Takes(o)
              hosts == Among(closures[c].options, IsHost)
              addrs == Among(closures[c].options, IsAddr)
          IN  /\ Values(child.annotations) = <<ClientSend>>
              /\ child.annotations[1].host = parent.host
              /\ Len(child.binaryAnnotations) = Len(addrs)
              /\ \A k \in 1..Len(addrs) :
                    /\ child.binaryAnnotations[k].key = ServerAddress
                    /\ child.binaryAnnotations[k].host # NilPtr
                    /\ endpoints[child.binaryAnnotations[k].host].ServiceName
                          = addrs[k].serviceName
              /\ IF hosts = <<>>
                 THEN child.host = parent.host
                 ELSE /\ child.host # NilPtr
                      /\ endpoints[child.host].ServiceName
                            = hosts[Len(hosts)].serviceName
    /\ Len(endpoints) =
          (IF spans # <<>> /\ Good(probe.root) THEN 1 ELSE 0)
          + TotalLen([c \in 1..Len(closures) |->
                        IF c \in Derivations
                        THEN Among(closures[c].options, Takes)
                        ELSE <<>>])

\* C9: a hostport that does not resolve is not an error and harms nothing:
\* NewSpan returns the span with the IDs and the method name given and no
\* host, and a Host or ServerAddr option leaves the host and the timing and
\* binary annotations of the span as they were before it ran.
C9_ResolutionFailure == RootWithoutHost /\ FailedOptionsLeaveNoTrace

\* A root without a host, and a child made with a Host and a ServerAddr
\* option that do not resolve, between options that do.
C9_Witness ==
    /\ ~Good(probe.root)
    /\ ~Good(probe.opt)
    /\ spans # <<>>
    /\ \E c \in Derivations :
          /\ closures[c].options = <<OptHostB, ProbeServerAddr, ProbeHost>>
          /\ spans[closures[c].span].host # NilPtr

\* The host a span got from hostport p, written host:port in decimal with a
\* host that has an IPv4 address: none unless the port is in -32768..32767,
\* and otherwise an endpoint with that port.
PortDecides(p, host, fallback) ==
    (p.form = "decimal" /\ p.host \in IPv4Hosts) =>
        IF p.port \in Int16
        THEN host # NilPtr /\ endpoints[host].Port = p.port
        ELSE host = fallback

\* C10: makeEndpoint takes the port as a signed 16-bit decimal integer; with
\* a port in 32768..65535, or any other outside -32768..32767, the span has
\* no endpoint from it and keeps the host it would have had, and with a port
\* in -32768..32767, negative ones too, the endpoint has that port.
C10_SignedPort ==
    /\ \A s \in SpanPtrs : IsRoot(s) => PortDecides(probe.root, spans[s].host, NilPtr)
    /\ \A c \in Derivations :
          closures[c].options = <<ProbeHost>> =>
              PortDecides(probe.opt, spans[closures[c].span].host,
                          spans[closures[c].ctx].host)

\* A root whose port 40000 gave it no host, with a child whose Host option
\* has the port -1.
C10_Witness ==
    /\ probe.root.form = "decimal"
    /\ probe.root.host \in IPv4Hosts
    /\ probe.root.port = 40000
    /\ probe.opt.form = "decimal"
    /\ probe.opt.port = -1
    /\ \E c \in Derivations :
          /\ closures[c].options = <<ProbeHost>>
          /\ spans[closures[c].ctx].host = NilPtr
          /\ spans[closures[c].span].host # NilPtr
          /\ endpoints[spans[closures[c].span].host].Port = -1

----------------------------------------------------------------------------
(* SpecEnc: the annotation encoder and Encode.  A key and a value are      *)
(* drawn; a span is made, annotated with them and with timing annotations  *)
(* while time passes, and encoded at the end.                              *)

SmallIntKinds == {"byte", "int8", "int16", "uint16", "int32", "uint32"}

SignedKinds == {"int8", "int16", "int32"}

\* The integers of each kind that are tried, smallest and largest included.
IntValues ==
    {[kind |-> "byte", v |-> Wide(n)] : n \in {0, 1, 127, 128, 200, 255}}
    \cup {[kind |-> "int8", v |-> Wide(n)] : n \in {-128, -2, -1, 0, 1, 127}}
    \cup {[kind |-> "int16", v |-> Wide(n)] : n \in {-32768, -257, -2, 0, 200, 32767}}
    \cup {[kind |-> "uint16", v |-> Wide(n)] : n \in {0, 200, 32767, 32768, 65535}}
    \cup {[kind |-> "int32", v |-> Wide(n)] :
            n \in {-2147483647 - 1, -65537, -65536, -2, 0, 200, 65536, 2147483647}}
    \cup {[kind |-> "uint32", v |-> Wide(n)] : n \in {0, 200, 65536, 2147483647}}
    \cup {[kind |-> "uint32", v |-> [hi |-> h, lo |-> l]] :
            h \in {32768, 65535}, l \in {0, 65535}}
    \cup {[kind |-> "int", v |-> Wide(n)] : n \in {-2, 200}}
    \cup {[kind |-> "uint", v |-> Wide(200)]}
    \cup {[kind |-> "int64", v |-> Wide(n)] : n \in {-2, 200}}
    \cup {[kind |-> "int64", v |-> [hi |-> 65536, lo |-> 1]]}
    \cup {[kind |-> "uint64", v |-> Wide(200)]}

OtherValues ==
    { [kind |-> "bool", bool |-> TRUE],
      [kind |-> "bool", bool |-> FALSE],
      [kind |-> "bytes", bytes |-> <<1, 2, 3>>],
      [kind |-> "string", bytes |-> <<104, 105>>],
      [kind |-> "float32", f |-> [sign |-> 1, exp |-> 127, man |-> <<64, 0>>]],
      [kind |-> "float64", f |-> [sign |-> 0, exp |-> 1023, man |-> <<8, 0, 0, 1>>]],
      [kind |-> "struct", text |-> <<123, 125>>] }

Int200 == [kind |-> "int", v |-> Wide(200)]

EncInputs ==
    {[key |-> "k", value |-> v] : v \in IntValues \cup OtherValues}
    \cup {[key |-> "http.status", value |-> Int200]}

InitEnc ==
    /\ spans = <<>>
    /\ endpoints = <<>>
    /\ clock = 0
    /\ closures = <<>>
    /\ collected = <<>>
    /\ encoded = NoEncoded
    /\ callerAnn = <<>>
    /\ pc = <<>>
    /\ loc = <<>>
    /\ probe \in EncInputs
    /\ nops = 0

NotEncoded == encoded.span = NilPtr

EncNewSpan ==
    /\ spans = <<>>
    /\ \E parentSpanID \in {0, 9} :
          DoNewSpan(HostportA, "svc", "rpc", 1, 2, parentSpanID)
    /\ UNCHANGED nops

EncAnnotate ==
    /\ NotEncoded
    /\ \E s \in SpanPtrs, value \in {ClientSend, "x"} :
          /\ Len(callerAnn[s]) < MaxCallerAnn
          /\ DoAnnotate(s, value)
    /\ UNCHANGED nops

EncAnnotateBinary ==
    /\ NotEncoded
    /\ \E s \in SpanPtrs :
          /\ Len(spans[s].binaryAnnotations) < MaxBinary
          /\ DoAnnotateBinary(s, probe.key, probe.value)
    /\ UNCHANGED nops

EncSetDebug ==
    /\ NotEncoded
    /\ \E s \in SpanPtrs : ~spans[s].debug /\ DoSetDebug(s)
    /\ UNCHANGED nops

EncTick ==
    /\ NotEncoded
    /\ clock < MaxTicks * 1500
    /\ Tick(1500)
    /\ UNCHANGED nops

EncEncode ==
    /\ \E s \in SpanPtrs : DoEncode(s)
    /\ UNCHANGED nops

NextEnc ==
    \/ EncNewSpan
    \/ EncAnnotate
    \/ EncAnnotateBinary
    \/ EncSetDebug
    \/ EncTick
    \/ EncEncode

SpecEnc == InitEnc /\ [][NextEnc]_vars

\* C6: Encode leaves the span, and the heap, as it found them, and what it
\* returns has the traceID, spanID, name and debug flag of the span, its
\* timing and binary annotations one for one and in order, in lists that
\* are made even when empty, and a ParentId that is absent exactly when
\* parentSpanID is 0 and is parentSpanID otherwise.
C6_EncodeSnapshot ==
    encoded.span # NilPtr =>
        LET sp == encoded.before.spans[encoded.span]
            zs == encoded.zs
        IN  /\ encoded.after = encoded.before
            /\ zs.TraceId = sp.traceID
            /\ zs.Id = sp.spanID
            /\ zs.Name = sp.methodName
            /\ zs.Debug = sp.debug
            /\ ~zs.Annotations.nil
            /\ Len(zs.Annotations.elems) = Len(sp.annotations)
            /\ \A k \in 1..Len(sp.annotations) :
                  /\ zs.Annotations.elems[k].Value = sp.annotations[k].value
                  /\ zs.Annotations.elems[k].Host = sp.annotations[k].host
            /\ ~zs.BinaryAnnotations.nil
            /\ Len(zs.BinaryAnnotations.elems) = Len(sp.binaryAnnotations)
            /\ \A k \in 1..Len(sp.binaryAnnotations) :
                  /\ zs.BinaryAnnotations.elems[k].Key = sp.binaryAnnotations[k].key
                  /\ zs.BinaryAnnotations.elems[k].Value = sp.binaryAnnotations[k].value
                  /\ zs.BinaryAnnotations.elems[k].AnnotationType
                        = sp.binaryAnnotations[k].annotationType
                  /\ zs.BinaryAnnotations.elems[k].Host = sp.binaryAnnotations[k].host
            /\ (zs.ParentId = <<>>) <=> (sp.parentSpanID = 0)
            /\ sp.parentSpanID # 0 => zs.ParentId = <<sp.parentSpanID>>

\* Encode has run on a span without a parent that has two timing annotations
\* with different values and a binary annotation.
C6_Witness ==
    /\ encoded.span # NilPtr
    /\ encoded.zs.ParentId = <<>>
    /\ Len(encoded.zs.Annotations.elems) = 2
    /\ encoded.zs.Annotations.elems[1].Value # encoded.zs.Annotations.elems[2].Value
    /\ Len(encoded.zs.BinaryAnnotations.elems) = 1

\* C7: on the span made with traceID 1, spanID 2 and parentSpanID 0, after
\* Annotate("cs") and AnnotateBinary("http.status", 200) with 200 an int,
\* Encode returns one timing annotation with value "cs", one binary
\* annotation with key "http.status", type I32 and the four bytes
\* 00 00 00 C8, and no ParentId.
C7_EndToEnd ==
    ( /\ encoded.span # NilPtr
      /\ probe = [key |-> "http.status", value |-> Int200]
      /\ spans[encoded.span].parentSpanID = 0
      /\ callerAnn[encoded.span] = <<ClientSend>>
      /\ Len(spans[encoded.span].binaryAnnotations) = 1 )
    => /\ Len(encoded.zs.Annotations.elems) = 1
       /\ encoded.zs.Annotations.elems[1].Value = ClientSend
       /\ Len(encoded.zs.BinaryAnnotations.elems) = 1
       /\ encoded.zs.BinaryAnnotations.elems[1].Key = "http.status"
       /\ encoded.zs.BinaryAnnotations.elems[1].AnnotationType = "I32"
       /\ encoded.zs.BinaryAnnotations.elems[1].Value = <<0, 0, 0, 200>>
       /\ encoded.zs.ParentId = <<>>

\* The bytes b read as a big-endian 32-bit pattern, in two 16-bit halves.
Halves(b) == [hi |-> b[1] * 256 + b[2], lo |-> b[3] * 256 + b[4]]

\* C8: a value of an 8-, 16- or 32-bit integer kind is annotated with type
\* I32, never a 16-bit type, and four bytes: read big-endian, as two's
\* complement for the signed kinds and as an unsigned number for the others,
\* they are the value.
C8_SmallIntsAreI32 ==
    \A s \in SpanPtrs :
        \A k \in 1..Len(spans[s].binaryAnnotations) :
            LET ba == spans[s].binaryAnnotations[k]
                v  == probe.value.v
            IN  probe.value.kind \in SmallIntKinds =>
                    /\ ba.annotationType = "I32"
                    /\ Len(ba.value) = 4
                    /\ \A i \in 1..4 : ba.value[i] \in 0..255
                    /\ Halves(ba.value).lo = v.lo
                    /\ Halves(ba.value).hi =
                          IF probe.value.kind \in SignedKinds /\ v.hi < 0
                          THEN v.hi + 65536
                          ELSE v.hi
                    /\ probe.value.kind \notin SignedKinds => v.hi >= 0

\* The int16 -2 has been annotated: I32 and FF FF FF FE.
C8_Witness ==
    /\ probe.value = [kind |-> "int16", v |-> Wide(-2)]
    /\ \E s \in SpanPtrs :
          /\ Len(spans[s].binaryAnnotations) = 1
          /\ spans[s].binaryAnnotations[1].value = <<255, 255, 255, 254>>

----------------------------------------------------------------------------
(* SpecConc: a CollectFunc called by several threads at once.  A call is   *)
(* the steps of the closure, one statement at a time:                      *)
(*   L284   if childSpan != nil                                            *)
(*   L285   childSpan.Annotate(ClientReceive), its read of s.annotations   *)
(*   L285w  and its write of s.annotations                                 *)
(*   L286   collector.Collect(childSpan)                                   *)
(*   L287   childSpan = nil                                                *)
(* The calls race on childSpan and on the span.  A statement that reads    *)
(* childSpan either reads the variable or uses the value the thread read   *)
(* at L284; a nil receiver at L285 is a nil pointer dereference.           *)

Threads == 1..NumThreads

NoLocals == [c |-> 0, childSpan |-> NilPtr, s |-> NilPtr, annotations |-> <<>>]

InitConc ==
    /\ spans = <<>>
    /\ endpoints = <<>>
    /\ clock = 0
    /\ closures = <<>>
    /\ collected = <<>>
    /\ encoded = NoEncoded
    /\ callerAnn = <<>>
    /\ pc = [t \in Threads |-> "idle"]
    /\ loc = [t \in Threads |-> NoLocals]
    /\ probe = <<>>
    /\ nops = 0

ConcNewSpan ==
    /\ spans = <<>>
    /\ DoNewSpan(HostportA, "svc", "rpc", 1, 2, 0)
    /\ UNCHANGED nops

ConcNewChildSpan ==
    /\ spans # <<>>
    /\ Len(closures) < MaxClosures
    /\ \E ctx \in {NilPtr} \cup SpanPtrs :
          DoNewChildSpan(ctx, "db", Len(spans) + 2, <<>>)
    /\ UNCHANGED nops

\* The values a read of the variable childSpan may give thread t.
ReadChildSpan(t) == {closures[loc[t].c].childSpan, loc[t].childSpan}

ConcCall(t) ==
    /\ pc[t] = "idle"
    /\ TotalCalls < MaxCalls
    /\ \E c \in 1..Len(closures) :
          /\ loc' = [loc EXCEPT ![t] = [NoLocals EXCEPT !.c = c]]
          /\ closures' = [closures EXCEPT ![c].calls = @ + 1]
    /\ pc' = [pc EXCEPT ![t] = "L284"]
    /\ UNCHANGED <<spans, endpoints, clock, collected, encoded, callerAnn,
                   probe, nops>>

ConcL284(t) ==
    /\ pc[t] = "L284"
    /\ LET childSpan == closures[loc[t].c].childSpan
       IN  IF childSpan # NilPtr
           THEN /\ pc' = [pc EXCEPT ![t] = "L285"]
                /\ loc' = [loc EXCEPT ![t].childSpan = childSpan]
           ELSE /\ pc' = [pc EXCEPT ![t] = "idle"]
                /\ loc' = loc
    /\ UNCHANGED <<spans, endpoints, clock, closures, collected, encoded,
                   callerAnn, probe, nops>>

ConcL285(t) ==
    /\ pc[t] = "L285"
    /\ \E s \in ReadChildSpan(t) :
          IF s = NilPtr
          THEN /\ pc' = [pc EXCEPT ![t] = "panic"]
               /\ loc' = loc
          ELSE /\ pc' = [pc EXCEPT ![t] = "L285w"]
               /\ loc' = [loc EXCEPT
                            ![t].s = s,
                            ![t].annotations =
                                Annotate(World, s, ClientReceive).spans[s].annotations]
    /\ UNCHANGED <<spans, endpoints, clock, closures, collected, encoded,
                   callerAnn, probe, nops>>

ConcL285w(t) ==
    /\ pc[t] = "L285w"
    /\ spans' = [spans EXCEPT ![loc[t].s].annotations = loc[t].annotations]
    /\ pc' = [pc EXCEPT ![t] = "L286"]
    /\ UNCHANGED <<endpoints, clock, closures, collected, encoded, callerAnn,
                   loc, probe, nops>>

ConcL286(t) ==
    /\ pc[t] = "L286"
    /\ \E s \in ReadChildSpan(t) :
          collected' = Append(collected,
              [span        |-> s,
               by          |-> loc[t].c,
               annotations |-> IF s = NilPtr THEN <<>> ELSE spans[s].annotations,
               caller      |-> IF s = NilPtr THEN <<>> ELSE callerAnn[s]])
    /\ pc' = [pc EXCEPT ![t] = "L287"]
    /\ UNCHANGED <<spans, endpoints, clock, closures, encoded, callerAnn,
                   loc, probe, nops>>

ConcL287(t) ==
    /\ pc[t] = "L287"
    /\ closures' = [closures EXCEPT ![loc[t].c].childSpan = NilPtr]
    /\ pc' = [pc EXCEPT ![t] = "idle"]
    /\ UNCHANGED <<spans, endpoints, clock, collected, encoded, callerAnn,
                   loc, probe, nops>>

ConcCollectFunc ==
    \E t \in Threads :
        \/ ConcCall(t)
        \/ ConcL284(t)
        \/ ConcL285(t)
        \/ ConcL285w(t)
        \/ ConcL286(t)
        \/ ConcL287(t)

NextConc ==
    \/ ConcNewSpan
    \/ ConcNewChildSpan
    \/ ConcCollectFunc

SpecConc == InitConc /\ [][NextConc]_vars

\* C2: whatever the interleaving of the calls of one CollectFunc, Collect is
\* called at most once for its child span and at most one client-receive
\* annotation is appended to it.
C2_ConcurrentCollectOnce ==
    \A c \in 1..Len(closures) :
        /\ CollectsBy(c) <= 1
        /\ ReceivesOf(closures[c].span) <= 1

====
